---- MODULE Spec2Model ----
(***************************************************************************)
(* Counting Sort over MPI (src/src/counting_sort.c, src/src/util.c).       *)
(* num_proc processes hold the same array of `size` ints.  Each process    *)
(* runs counting_sort(array, size, num_proc, rank): find_min_max (a local  *)
(* scan and two MPI_Allreduce), a local histogram, a gather of the         *)
(* histograms at rank 0 by MPI_Send / MPI_Recv, the reconstruction of the  *)
(* array at rank 0 and an MPI_Bcast of the result.                         *)
(*                                                                         *)
(* C arrays are modelled as sequences: C index i is sequence index i + 1.  *)
(***************************************************************************)
EXTENDS Integers, Sequences, FiniteSets, TLC

\* ------------------------------------------------------------- bounds ----
MaxSize == 3        \* largest array size explored
MaxProc == 3        \* largest number of MPI processes explored
MaxValue == 1       \* largest array element explored (stands for RANGE_MAX)
MaxRounds == 2      \* how many times counting_sort is invoked on the array

RANGE_MIN == 0
RANGE_MAX == MaxValue

Values == RANGE_MIN..RANGE_MAX

VARIABLES
    size,        \* long long size: number of elements of the array
    num_proc,    \* int num_proc: number of MPI processes
    send_mode,   \* how MPI_Send completes: "buffered" or "sync"
    round,       \* which invocation of counting_sort is running
    input,       \* the array every process was given at this invocation
    array,       \* array[r]: process r's copy of the array
    pc,          \* pc[r]: where process r is in counting_sort
    local_min,   \* find_min_max: local_min of process r
    local_max,   \* find_min_max: local_max of process r
    min,         \* counting_sort: min of process r
    max,         \* counting_sort: max of process r
    local_count, \* counting_sort: local_count[] of process r
    count,       \* counting_sort: count[] (rank 0 only)
    gi,          \* counting_sort: loop variable i of the gather loop (rank 0)
    k,           \* counting_sort: write index k of the reconstruction (rank 0)
    msgs,        \* histogram messages sent and not yet received (tag 2)
    bcast,       \* the MPI_Bcast of rank 0: whether posted, and its data
    scan_mm,     \* scan_mm[r]: indices process r read in find_min_max
    scan_hist,   \* scan_hist[r]: indices process r counted in local_count[]
    alloc_failed, \* the processes on which a safe_alloc has failed
    sent,        \* sent[r]: how many times process r has called MPI_Send
    recvd,       \* the sources of rank 0's completed MPI_Recv, in order
    lost,        \* the senders whose histogram message was lost in transit
    argc,        \* main: argc
    argv,        \* main: argv[1], a sequence of characters
    range_min,   \* the RANGE_MIN the program was built with
    range_max,   \* the RANGE_MAX the program was built with
    local_array, \* array_init_random: local_array[] of process r
    err,         \* what was written to standard error: [rank, msg]
    out,         \* what was written to standard output: [rank, size, num_proc]
    int_max      \* the largest value of the platform's int

vars == <<size, num_proc, send_mode, round, input, array, pc, local_min,
          local_max, min, max, local_count, count, gi, k, msgs, bcast,
          scan_mm, scan_hist, alloc_failed, sent, recvd, lost, argc, argv,
          range_min, range_max, local_array, err, out, int_max>>

Ranks == 0..(num_proc - 1)

\* ----------------------------------------------------- pure functions ----

\* key shifted by one.
key_PlusOne(item) == item + 1

\* static int key(int item), lines 44-46.
key(item) == item

\* const long long local_size = size / num_proc;
LocalSize(sz, np) == sz \div np

\* int num_leftout = size - local_size * num_proc;
NumLeftout(sz, np) == sz - LocalSize(sz, np) * np

\* MinMaxStart with chunk `rank` instead of chunk `rank - 1` for rank > 0.
MinMaxStart_OwnChunk(rank, sz, np) ==
    IF rank > 0 THEN rank * LocalSize(sz, np)
                ELSE (np - 1) * LocalSize(sz, np)

\* First index scanned by array_min_max in find_min_max.
MinMaxStart(rank, sz, np) ==
    IF rank > 0 THEN (rank - 1) * LocalSize(sz, np)
                ELSE (np - 1) * LocalSize(sz, np)

\* MinMaxCount with rank 0 forgetting the left out elements.
MinMaxCount_NoLeftout(rank, sz, np) == LocalSize(sz, np)

\* Number of elements array_min_max is asked to scan in find_min_max.
MinMaxCount(rank, sz, np) ==
    IF rank > 0 THEN LocalSize(sz, np)
                ELSE LocalSize(sz, np) + NumLeftout(sz, np)

\* LocalOffset with the chunk assignment of find_min_max.
LocalOffset_AsMinMax(rank, sz, np) ==
    IF rank > 0 THEN (rank - 1) * LocalSize(sz, np)
                ELSE (np - 1) * LocalSize(sz, np)

\* long long local_offset = rank * local_size;
LocalOffset(rank, sz, np) == rank * LocalSize(sz, np)

\* IndexLeftout one element too far.
IndexLeftout_OffByOne(sz, np) == LocalSize(sz, np) * np + 1

\* long long index_leftout = local_size * num_proc;
IndexLeftout(sz, np) == LocalSize(sz, np) * np

\* CountSize with one entry too many.
CountSize_OneMore(mn, mx) == mx - mn + 2

\* const int count_size = max - min + 1;
CountSize(mn, mx) == mx - mn + 1

\* The loop of array_min_max over a[start .. start+n-1], from index i on.
RECURSIVE MinMaxLoop(_, _, _, _, _, _)
MinMaxLoop(a, start, n, i, mn, mx) ==
    IF i >= n THEN <<mn, mx>>
    ELSE LET v == a[start + i + 1] IN
         IF v < mn THEN MinMaxLoop(a, start, n, i + 1, v, mx)
         ELSE IF v > mx THEN MinMaxLoop(a, start, n, i + 1, mn, v)
         ELSE MinMaxLoop(a, start, n, i + 1, mn, mx)

\* array_min_max(&a[start], n, &min, &max): <<min, max>>.
\* *min and *max start at a[start] whatever n is.
array_min_max(a, start, n) ==
    MinMaxLoop(a, start, n, 0, a[start + 1], a[start + 1])

\* The half-open index range [from, to) of a for loop.
Range(from, to) == from..(to - 1)

\* The indices array_min_max(&a[start], n, ..) reads.
MinMaxReads(start, n) == {start} \cup Range(start, start + n)

\* ZeroCount without the initialisation: whatever malloc left, here ones.
ZeroCount_Ones(n) == [j \in 1..n |-> 1]

\* for (i = 0; i < count_size; i++) local_count[i] = 0;
ZeroCount(n) == [j \in 1..n |-> 0]

\* for (i = from; i < to; i++) h[key(a[i]) - mn] += 1;
RECURSIVE CountLoop(_, _, _, _, _)
CountLoop(h, a, from, to, mn) ==
    IF from >= to THEN h
    ELSE LET j == key(a[from + 1]) - mn + 1 IN
         CountLoop([h EXCEPT ![j] = @ + 1], a, from + 1, to, mn)

\* AddCount with = instead of +=.
AddCount_Assign(c, h) == h

\* for (j = 0; j < count_size; j++) count[j] += local_count[j];
AddCount(c, h) == [j \in DOMAIN c |-> c[j] + h[j]]

\* for (j = 0; j < count[i - min]; j++) ... = i : n copies of value v.
Copies(v, n) == [j \in 1..n |-> v]

\* for (i = min; i < max + 1; i++) for (j ..) array[k++] = i;
\* the sequence of values written, in the order of k.
RECURSIVE Writes(_, _, _, _)
Writes(c, mn, mx, i) ==
    IF i >= mx + 1 THEN <<>>
    ELSE Copies(i, c[i - mn + 1]) \o Writes(c, mn, mx, i + 1)

\* Reconstructed with the outer loop stopping before max (i < max).
Reconstructed_SkipMax(c, mn, mx) == Writes(c, mn, mx - 1, mn)

\* Reconstructed with the outer loop starting after min (i = min + 1).
Reconstructed_SkipMin(c, mn, mx) == Writes(c, mn, mx, mn + 1)

\* Lines 167-169: everything the reconstruction writes, from i = min.
Reconstructed(c, mn, mx) == Writes(c, mn, mx, mn)

\* The array after the writes w at indices 0 .. Len(w)-1.
Overwrite(a, w) ==
    [j \in 1..Len(a) |-> IF j <= Len(w) THEN w[j] ELSE a[j]]

\* serial.c, counting_sort lines 145-163: the array the single-process
\* reference leaves.
serial_counting_sort(a) ==
    LET mm == array_min_max(a, 0, Len(a))
        mn == mm[1]
        mx == mm[2]
        cnt == CountLoop(ZeroCount(mx - mn + 1), a, 0, Len(a), mn)
    IN Overwrite(a, Writes(cnt, mn, mx, mn))

\* GatherBound with the loop condition i < num_proc - 1.
GatherBound_Short(np) == np - 1

\* GatherBound with the loop condition i <= num_proc.
GatherBound_Inclusive(np) == np + 1

\* The upper bound of the gather loop: for (i = 0; i < num_proc; i++).
GatherBound(np) == np

\* BcastCount one element short.
BcastCount_Short(sz) == sz - 1

\* A long long converted to int: unchanged when it fits, reduced modulo
\* 2 * (INT_MAX + 1) into the range of int otherwise.
ToInt(n) ==
    IF n <= int_max /\ n >= 0 - int_max - 1 THEN n
    ELSE ((n + int_max + 1) % (2 * (int_max + 1))) - (int_max + 1)

\* The element count MPI_Bcast is given: the long long size, passed as the
\* int parameter count.
BcastCount(sz) == ToInt(sz)

\* MPI_Bcast(array, count, ..): the first count elements of the root's array.
BcastData(a, n) == SubSeq(a, 1, n)

\* The minimum and the maximum of a non-empty set of integers (MPI_MIN, MPI_MAX).
SetMin(S) == CHOOSE x \in S : \A y \in S : x <= y
SetMax(S) == CHOOSE x \in S : \A y \in S : x >= y

\* ------------------------------------------------------ program order ----
\* "start" to "sort_barrier" are main before counting_sort, "exit_ok" its
\* return.  "fail_barrier" and "exited" are the end of safe_alloc when an
\* allocation fails, "arg_barrier" the barrier of main's argument checks.
PcOrder == <<"start", "init_barrier", "allgather", "sort_barrier",
             "fmm", "allreduce_min", "allreduce_max", "count", "coord_init",
             "gather", "reconstruct", "send", "send_wait", "bcast", "done",
             "exit_ok", "fail_barrier", "exited", "arg_barrier", "aborted">>

Ord(l) == CHOOSE n \in 1..Len(PcOrder) : PcOrder[n] = l

\* Process r has called the first / the second MPI_Allreduce of find_min_max.
InAllreduceMin(r) == Ord(pc[r]) >= Ord("allreduce_min")
InAllreduceMax(r) == Ord(pc[r]) >= Ord("allreduce_max")

AllDone == \A r \in Ranks : pc[r] = "done"

\* Process r has built its local_count[] (rank 0: the left out elements too).
HistBuilt(r) ==
    IF r = 0 THEN pc[r] \in {"gather", "reconstruct", "bcast", "done"}
             ELSE pc[r] \in {"send", "send_wait", "bcast", "done"}

\* find_min_max has returned on process r.
MinMaxReturned(r) == Ord(pc[r]) >= Ord("count")

\* ---------------------------------------------------------- the state ----
NoCount == <<>>

\* The same value v for each of np processes.
PerRank(np, v) == [r \in 0..(np - 1) |-> v]

NoBcast == [posted |-> FALSE, data |-> <<>>]

\* The largest int of the platforms the program is built for (32 bits).
INT_MAX == 2147483647

Init ==
    /\ size \in 1..MaxSize
    /\ num_proc \in 1..MaxProc
    /\ send_mode \in {"buffered", "sync"}
    /\ round = 1
    /\ input \in [1..size -> Values]
    /\ array = [r \in Ranks |-> input]
    /\ pc = PerRank(num_proc, "fmm")
    /\ local_min = PerRank(num_proc, RANGE_MAX)
    /\ local_max = PerRank(num_proc, RANGE_MIN)
    /\ min = PerRank(num_proc, 0)
    /\ max = PerRank(num_proc, 0)
    /\ local_count = PerRank(num_proc, NoCount)
    /\ count = NoCount
    /\ gi = 0
    /\ k = 0
    /\ msgs = {}
    /\ bcast = NoBcast
    /\ scan_mm = PerRank(num_proc, {})
    /\ scan_hist = PerRank(num_proc, {})
    /\ alloc_failed = {}
    /\ sent = PerRank(num_proc, 0)
    /\ recvd = <<>>
    /\ lost = {}
    /\ argc = 2
    /\ argv = <<>>
    /\ range_min = RANGE_MIN
    /\ range_max = RANGE_MAX
    /\ local_array = PerRank(num_proc, <<>>)
    /\ err = <<>>
    /\ out = <<>>
    /\ int_max = INT_MAX

\* -------------------------------------------------------- the actions ----

\* find_min_max lines 63-90 and the call of the first MPI_Allreduce.
FindMinMaxScan(r) ==
    /\ pc[r] = "fmm"
    /\ LET start == MinMaxStart(r, size, num_proc)
           n == MinMaxCount(r, size, num_proc)
           mm == array_min_max(array[r], start, n)
       IN /\ local_min' = [local_min EXCEPT ![r] = mm[1]]
          /\ local_max' = [local_max EXCEPT ![r] = mm[2]]
          /\ scan_mm' = [scan_mm EXCEPT ![r] = MinMaxReads(start, n)]
    /\ pc' = [pc EXCEPT ![r] = "allreduce_min"]
    /\ UNCHANGED <<size, num_proc, send_mode, round, input, array, min, max,
                   local_count, count, gi, k, msgs, bcast, scan_hist,
                   alloc_failed, sent, recvd, lost, argc, argv, range_min,
                   range_max, local_array, err, out, int_max>>

\* MPI_Allreduce(&local_min, min, .., MPI_MIN, ..) returns on r once every
\* process has called it; r then calls the second MPI_Allreduce.
AllreduceMin(r) ==
    /\ pc[r] = "allreduce_min"
    /\ \A s \in Ranks : InAllreduceMin(s)
    /\ min' = [min EXCEPT ![r] = SetMin({local_min[s] : s \in Ranks})]
    /\ pc' = [pc EXCEPT ![r] = "allreduce_max"]
    /\ UNCHANGED <<size, num_proc, send_mode, round, input, array, local_min,
                   local_max, max, local_count, count, gi, k, msgs, bcast,
                   scan_mm, scan_hist, alloc_failed, sent, recvd, lost, argc,
                   argv, range_min, range_max, local_array, err, out, int_max>>

\* MPI_Allreduce(&local_max, max, .., MPI_MAX, ..) returns on r once every
\* process has called it; find_min_max returns.
AllreduceMax(r) ==
    /\ pc[r] = "allreduce_max"
    /\ \A s \in Ranks : InAllreduceMax(s)
    /\ max' = [max EXCEPT ![r] = SetMax({local_max[s] : s \in Ranks})]
    /\ pc' = [pc EXCEPT ![r] = "count"]
    /\ UNCHANGED <<size, num_proc, send_mode, round, input, array, local_min,
                   local_max, min, local_count, count, gi, k, msgs, bcast,
                   scan_mm, scan_hist, alloc_failed, sent, recvd, lost, argc,
                   argv, range_min, range_max, local_array, err, out, int_max>>

\* counting_sort lines 112-129: local_count[] allocated, zeroed and filled
\* from the local_size elements at local_offset.
BuildLocalCount(r) ==
    /\ pc[r] = "count"
    /\ LET from == LocalOffset(r, size, num_proc)
           to == from + LocalSize(size, num_proc)
       IN /\ local_count' = [local_count EXCEPT ![r] =
                 CountLoop(ZeroCount(CountSize(min[r], max[r])), array[r],
                           from, to, min[r])]
          /\ scan_hist' = [scan_hist EXCEPT ![r] =
                 Range(from, to)]
    /\ pc' = [pc EXCEPT ![r] = IF r = 0 THEN "coord_init" ELSE "send"]
    /\ UNCHANGED <<size, num_proc, send_mode, round, input, array, local_min,
                   local_max, min, max, count, gi, k, msgs, bcast, scan_mm,
                   alloc_failed, sent, recvd, lost, argc, argv, range_min,
                   range_max, local_array, err, out, int_max>>

\* counting_sort lines 132-151 (rank 0): count[] allocated and zeroed, the
\* left out elements counted into local_count[].
CoordInit ==
    /\ pc[0] = "coord_init"
    /\ k' = 0
    /\ count' = ZeroCount(CountSize(min[0], max[0]))
    /\ LET from == IndexLeftout(size, num_proc)
       IN /\ local_count' = [local_count EXCEPT ![0] =
                 CountLoop(@, array[0], from, size, min[0])]
          /\ scan_hist' = [scan_hist EXCEPT ![0] =
                 @ \cup Range(from, size)]
    /\ gi' = 0
    /\ pc' = [pc EXCEPT ![0] = "gather"]
    /\ UNCHANGED <<size, num_proc, send_mode, round, input, array, local_min,
                   local_max, min, max, msgs, bcast, scan_mm, alloc_failed,
                   sent, recvd, lost, argc, argv, range_min, range_max,
                   local_array, err, out, int_max>>

\* One iteration of the gather loop, lines 158-164 (rank 0): for i > 0 the
\* MPI_Recv from rank i into local_count[], then count[] += local_count[].
GatherStep ==
    /\ pc[0] = "gather"
    /\ gi < GatherBound(num_proc)
    /\ IF gi > 0
       THEN \E m \in msgs :
               /\ m.src = gi
               /\ msgs' = msgs \ {m}
               /\ local_count' = [local_count EXCEPT ![0] = m.data]
               /\ count' = AddCount(count, m.data)
               /\ recvd' = Append(recvd, m.src)
       ELSE /\ count' = AddCount(count, local_count[0])
            /\ UNCHANGED <<msgs, local_count, recvd>>
    /\ gi' = gi + 1
    /\ UNCHANGED <<size, num_proc, send_mode, round, input, array, pc,
                   local_min, local_max, min, max, k, bcast, scan_mm,
                   scan_hist, alloc_failed, sent, lost, argc, argv,
                   range_min, range_max, local_array, err, out, int_max>>

\* The gather loop ends (i == num_proc).
GatherEnd ==
    /\ pc[0] = "gather"
    /\ ~(gi < GatherBound(num_proc))
    /\ pc' = [pc EXCEPT ![0] = "reconstruct"]
    /\ UNCHANGED <<size, num_proc, send_mode, round, input, array, local_min,
                   local_max, min, max, local_count, count, gi, k, msgs,
                   bcast, scan_mm, scan_hist, alloc_failed, sent, recvd,
                   lost, argc, argv, range_min, range_max, local_array, err,
                   out, int_max>>

\* Lines 166-180 (rank 0): the array rewritten from count[], count[] and
\* local_count[] freed.
Reconstruct ==
    /\ pc[0] = "reconstruct"
    /\ LET w == Reconstructed(count, min[0], max[0])
       IN /\ array' = [array EXCEPT ![0] = Overwrite(@, w)]
          /\ k' = Len(w)
    /\ count' = NoCount
    /\ local_count' = [local_count EXCEPT ![0] = NoCount]
    /\ pc' = [pc EXCEPT ![0] = "bcast"]
    /\ UNCHANGED <<size, num_proc, send_mode, round, input, local_min,
                   local_max, min, max, gi, msgs, bcast, scan_mm, scan_hist,
                   alloc_failed, sent, recvd, lost, argc, argv, range_min,
                   range_max, local_array, err, out, int_max>>

\* Line 177 (rank > 0): MPI_Send of local_count[] to rank 0.  A buffered send
\* returns at once; a synchronous one returns when rank 0 has received it.
Send(r) ==
    /\ r > 0
    /\ pc[r] = "send"
    /\ msgs' = msgs \cup {[src |-> r, data |-> local_count[r]]}
    /\ sent' = [sent EXCEPT ![r] = @ + 1]
    /\ IF send_mode = "buffered"
       THEN /\ pc' = [pc EXCEPT ![r] = "bcast"]
            /\ local_count' = [local_count EXCEPT ![r] = NoCount]
       ELSE /\ pc' = [pc EXCEPT ![r] = "send_wait"]
            /\ UNCHANGED local_count
    /\ UNCHANGED <<size, num_proc, send_mode, round, input, array, local_min,
                   local_max, min, max, count, gi, k, bcast, scan_mm,
                   scan_hist, alloc_failed, recvd, lost, argc, argv,
                   range_min, range_max, local_array, err, out, int_max>>

\* A synchronous MPI_Send returns: rank 0 has received the message.
SendReturn(r) ==
    /\ pc[r] = "send_wait"
    /\ \E i \in DOMAIN recvd : recvd[i] = r
    /\ pc' = [pc EXCEPT ![r] = "bcast"]
    /\ local_count' = [local_count EXCEPT ![r] = NoCount]
    /\ UNCHANGED <<size, num_proc, send_mode, round, input, array, local_min,
                   local_max, min, max, count, gi, k, msgs, bcast, scan_mm,
                   scan_hist, alloc_failed, sent, recvd, lost, argc, argv,
                   range_min, range_max, local_array, err, out, int_max>>

\* Line 187 at the root: the array is handed to MPI_Bcast, which may return
\* before the other processes have received it.
BcastRoot ==
    /\ pc[0] = "bcast"
    /\ BcastCount(size) >= 0
    /\ bcast' = [posted |-> TRUE,
                 data |-> BcastData(array[0], BcastCount(size))]
    /\ pc' = [pc EXCEPT ![0] = "done"]
    /\ UNCHANGED <<size, num_proc, send_mode, round, input, array, local_min,
                   local_max, min, max, local_count, count, gi, k, msgs,
                   scan_mm, scan_hist, alloc_failed, sent, recvd, lost, argc,
                   argv, range_min, range_max, local_array, err, out, int_max>>

\* Line 187 at rank > 0: MPI_Bcast returns with the root's data in array.
BcastRecv(r) ==
    /\ r > 0
    /\ pc[r] = "bcast"
    /\ BcastCount(size) >= 0
    /\ bcast.posted
    /\ array' = [array EXCEPT ![r] = Overwrite(@, bcast.data)]
    /\ pc' = [pc EXCEPT ![r] = "done"]
    /\ UNCHANGED <<size, num_proc, send_mode, round, input, local_min,
                   local_max, min, max, local_count, count, gi, k, msgs,
                   bcast, scan_mm, scan_hist, alloc_failed, sent, recvd,
                   lost, argc, argv, range_min, range_max, local_array, err,
                   out, int_max>>

\* Line 187 with a negative count: MPI_Bcast fails with MPI_ERR_COUNT and the
\* error handler of MPI_COMM_WORLD, MPI_ERRORS_ARE_FATAL, aborts every process.
BcastInvalidCount(r) ==
    /\ pc[r] = "bcast"
    /\ BcastCount(size) < 0
    /\ pc' = PerRank(num_proc, "aborted")
    /\ UNCHANGED <<size, num_proc, send_mode, round, input, array, local_min,
                   local_max, min, max, local_count, count, gi, k, msgs,
                   bcast, scan_mm, scan_hist, alloc_failed, sent, recvd,
                   lost, argc, argv, range_min, range_max, local_array, err,
                   out, int_max>>

\* counting_sort is called again, by every process, on the array it left.
SortAgain ==
    /\ AllDone
    /\ round < MaxRounds
    /\ round' = round + 1
    /\ input' = array[0]
    /\ pc' = PerRank(num_proc, "fmm")
    /\ local_min' = PerRank(num_proc, RANGE_MAX)
    /\ local_max' = PerRank(num_proc, RANGE_MIN)
    /\ min' = PerRank(num_proc, 0)
    /\ max' = PerRank(num_proc, 0)
    /\ local_count' = PerRank(num_proc, NoCount)
    /\ count' = NoCount
    /\ gi' = 0
    /\ k' = 0
    /\ msgs' = {}
    /\ bcast' = NoBcast
    /\ scan_mm' = PerRank(num_proc, {})
    /\ scan_hist' = PerRank(num_proc, {})
    /\ sent' = PerRank(num_proc, 0)
    /\ recvd' = <<>>
    /\ UNCHANGED <<size, num_proc, send_mode, array, alloc_failed, lost,
                   argc, argv, range_min, range_max, local_array, err, out,
                   int_max>>

\* safe_alloc, lines 43-46, called at counting_sort line 118: malloc returns
\* NULL for local_count[]; the process reports it and calls MPI_Barrier.
AllocFailLocalCount(r) ==
    /\ pc[r] = "count"
    /\ alloc_failed' = alloc_failed \cup {r}
    /\ pc' = [pc EXCEPT ![r] = "fail_barrier"]
    /\ UNCHANGED <<size, num_proc, send_mode, round, input, array, local_min,
                   local_max, min, max, local_count, count, gi, k, msgs,
                   bcast, scan_mm, scan_hist, sent, recvd, lost, argc, argv,
                   range_min, range_max, local_array, err, out, int_max>>

\* safe_alloc, lines 43-46, called at counting_sort line 139 (rank 0): malloc
\* returns NULL for count[].
AllocFailCount ==
    /\ pc[0] = "coord_init"
    /\ alloc_failed' = alloc_failed \cup {0}
    /\ pc' = [pc EXCEPT ![0] = "fail_barrier"]
    /\ UNCHANGED <<size, num_proc, send_mode, round, input, array, local_min,
                   local_max, min, max, local_count, count, gi, k, msgs,
                   bcast, scan_mm, scan_hist, sent, recvd, lost, argc, argv,
                   range_min, range_max, local_array, err, out, int_max>>

\* safe_alloc, lines 46-48: MPI_Barrier returns once every process has called
\* it; then MPI_Finalize and exit(EXIT_FAILURE).
BarrierReturn(r) ==
    /\ pc[r] = "fail_barrier"
    /\ \A s \in Ranks : pc[s] \in {"fail_barrier", "exited"}
    /\ pc' = [pc EXCEPT ![r] = "exited"]
    /\ UNCHANGED <<size, num_proc, send_mode, round, input, array, local_min,
                   local_max, min, max, local_count, count, gi, k, msgs,
                   bcast, scan_mm, scan_hist, alloc_failed, sent, recvd,
                   lost, argc, argv, range_min, range_max, local_array, err,
                   out, int_max>>

\* MPI_Barrier on r while every other process is inside a collective call,
\* some of them inside MPI_Bcast: the collectives are called in different
\* orders, which MPI leaves undefined.  The barrier may take the peers'
\* MPI_Bcast for its match and return (or never return: no step).
BarrierMismatch(r) ==
    /\ pc[r] = "fail_barrier"
    /\ \A s \in Ranks \ {r} : pc[s] \in {"fail_barrier", "exited", "bcast"}
    /\ \E s \in Ranks \ {r} : pc[s] = "bcast"
    /\ pc' = [pc EXCEPT ![r] = "exited"]
    /\ UNCHANGED <<size, num_proc, send_mode, round, input, array, local_min,
                   local_max, min, max, local_count, count, gi, k, msgs,
                   bcast, scan_mm, scan_hist, alloc_failed, sent, recvd,
                   lost, argc, argv, range_min, range_max, local_array, err,
                   out, int_max>>

\* A histogram message in transit is lost: it is never delivered.
LoseMsg(m) ==
    /\ m \in msgs
    /\ msgs' = msgs \ {m}
    /\ lost' = lost \cup {m.src}
    /\ UNCHANGED <<size, num_proc, send_mode, round, input, array, pc,
                   local_min, local_max, min, max, local_count, count, gi, k,
                   bcast, scan_mm, scan_hist, alloc_failed, sent, recvd,
                   argc, argv, range_min, range_max, local_array, err, out,
                   int_max>>

\* The steps of process r inside counting_sort.
Step(r) ==
    \/ FindMinMaxScan(r)
    \/ AllreduceMin(r)
    \/ AllreduceMax(r)
    \/ BuildLocalCount(r)
    \/ (r = 0 /\ CoordInit)
    \/ (r = 0 /\ GatherStep)
    \/ (r = 0 /\ GatherEnd)
    \/ (r = 0 /\ Reconstruct)
    \/ Send(r)
    \/ SendReturn(r)
    \/ (r = 0 /\ BcastRoot)
    \/ BcastRecv(r)

SortNext ==
    \/ \E r \in Ranks : FindMinMaxScan(r)
    \/ \E r \in Ranks : AllreduceMin(r)
    \/ \E r \in Ranks : AllreduceMax(r)
    \/ \E r \in Ranks : BuildLocalCount(r)
    \/ CoordInit
    \/ GatherStep
    \/ GatherEnd
    \/ Reconstruct
    \/ \E r \in Ranks : Send(r)
    \/ \E r \in Ranks : SendReturn(r)
    \/ BcastRoot
    \/ \E r \in Ranks : BcastRecv(r)

Next ==
    \/ SortNext
    \/ SortAgain

Spec == Init /\ [][Next]_vars

\* Every MPI process keeps running: a process that can take a step of
\* counting_sort eventually takes one.  Nothing obliges the caller to sort
\* again.
Fairness == \A r \in 0..(MaxProc - 1) : WF_vars(r \in Ranks /\ Step(r))

FairSpec == Spec /\ Fairness

\* The program when malloc may fail inside counting_sort.
NextFail ==
    \/ Next
    \/ \E r \in Ranks : AllocFailLocalCount(r)
    \/ AllocFailCount
    \/ \E r \in Ranks : BarrierReturn(r)
    \/ \E r \in Ranks : BarrierMismatch(r)

SpecFail == Init /\ [][NextFail]_vars

\* The program when the network may lose histogram messages.
NextLoss ==
    \/ Next
    \/ \E m \in msgs : LoseMsg(m)

SpecLoss == Init /\ [][NextLoss]_vars

\* A narrow int, standing for the 32-bit int, so that sizes beyond INT_MAX can
\* be explored; only the count of MPI_Bcast is converted to it.
NarrowIntMax == 1

\* The sizes explored with the narrow int: up to one past the first size that
\* wraps around to 0.
NarrowMaxSize == 2 * (NarrowIntMax + 1) + 1

\* counting_sort entered by every process on a platform with the narrow int.
NarrowInit ==
    /\ size \in 1..NarrowMaxSize
    /\ num_proc \in 1..MaxProc
    /\ send_mode \in {"buffered", "sync"}
    /\ round = 1
    /\ input \in [1..size -> Values]
    /\ array = [r \in Ranks |-> input]
    /\ pc = PerRank(num_proc, "fmm")
    /\ local_min = PerRank(num_proc, RANGE_MAX)
    /\ local_max = PerRank(num_proc, RANGE_MIN)
    /\ min = PerRank(num_proc, 0)
    /\ max = PerRank(num_proc, 0)
    /\ local_count = PerRank(num_proc, NoCount)
    /\ count = NoCount
    /\ gi = 0
    /\ k = 0
    /\ msgs = {}
    /\ bcast = NoBcast
    /\ scan_mm = PerRank(num_proc, {})
    /\ scan_hist = PerRank(num_proc, {})
    /\ alloc_failed = {}
    /\ sent = PerRank(num_proc, 0)
    /\ recvd = <<>>
    /\ lost = {}
    /\ argc = 2
    /\ argv = <<>>
    /\ range_min = RANGE_MIN
    /\ range_max = RANGE_MAX
    /\ local_array = PerRank(num_proc, <<>>)
    /\ err = <<>>
    /\ out = <<>>
    /\ int_max = NarrowIntMax

NextNarrow ==
    \/ SortNext
    \/ \E r \in Ranks : BcastInvalidCount(r)

SpecNarrow == NarrowInit /\ [][NextNarrow]_vars

\* ------------------------------------------- main and array_init_random ----
SizeofInt == 4

\* The characters atoll tells apart.
Digits == <<"0", "1", "2", "3", "4", "5", "6", "7", "8", "9">>

IsDigit(c) == \E d \in DOMAIN Digits : Digits[d] = c

DigitVal(c) == (CHOOSE d \in DOMAIN Digits : Digits[d] = c) - 1

IsSpace(c) == c = " "

RECURSIVE SkipSpaces(_)
SkipSpaces(s) ==
    IF s # <<>> /\ IsSpace(Head(s)) THEN SkipSpaces(Tail(s)) ELSE s

RECURSIVE AtollDigits(_, _)
AtollDigits(s, acc) ==
    IF s # <<>> /\ IsDigit(Head(s))
    THEN AtollDigits(Tail(s), acc * 10 + DigitVal(Head(s)))
    ELSE acc

\* atoll(argv[1]): leading white space is skipped, then an optional sign, then
\* the digits up to the first character that is not a digit; 0 when there is
\* no digit.
Atoll(s) ==
    LET t == SkipSpaces(s)
    IN IF t = <<>> THEN 0
       ELSE IF Head(t) = "-" THEN 0 - AtollDigits(Tail(t), 0)
       ELSE IF Head(t) = "+" THEN AtollDigits(Tail(t), 0)
       ELSE AtollDigits(t, 0)

\* The values of argv[1] explored: a number, a negative number, a number
\* followed or preceded by something else, no number.
ArgStrings ==
    {<<>>, <<"x">>, <<"-", Digits[2]>>, <<" ", Digits[2]>>}
        \cup {<<Digits[n + 1]>> : n \in 0..MaxSize}
        \cup {<<Digits[n + 1], "x">> : n \in 1..MaxSize}

\* safe_alloc line 36.
SafeAllocFails(bytes) == bytes < 1

\* A malloc'd int that has not been written yet.
Unwritten == RANGE_MIN - 1

Malloced(n) == [i \in 1..n |-> Unwritten]

\* main lines 45 and 54: who prints the error of an invalid invocation.
ReportsError_Everyone(rank) == TRUE

ReportsError(rank) == rank = 0

\* main line 85: who prints the result record.
WritesRecord_Everyone(rank) == TRUE

WritesRecord(rank) == rank = 0

\* The largest value of rand() and rand_r().
MaxRand == 2 * (MaxValue + 1) - 1

\* array_init_random lines 72 and 89.
InRange(raw, mn, mx) == (raw % (mx + 1 - mn)) + mn

\* array_init_random line 87, the argument of srand.
LeftoutSeed_PerRank(mn, mx, np, rank) == mx - mn + np + rank

LeftoutSeed(mn, mx, np, rank) == mx - mn + np

\* The i-th value of rand() after srand(seed), i = 0, 1, ...: a function of
\* the seed and of i alone.
Rand(seed, i) == (seed * 7 + i * 5 + 3) % (MaxRand + 1)

\* array_init_random lines 85-89: the left out elements of the array.
FillLeftout(a, sz, mn, mx, np, rank) ==
    LET from == IndexLeftout(sz, np)
    IN [i \in 1..Len(a) |->
           IF i - 1 \in Range(from, sz)
           THEN InRange(Rand(LeftoutSeed(mn, mx, np, rank), i - 1 - from),
                        mn, mx)
           ELSE a[i]]

RECURSIVE Concat(_, _, _)
Concat(la, r, np) == IF r = np THEN <<>> ELSE la[r] \o Concat(la, r + 1, np)

\* MPI_Allgather, lines 75-76: the local arrays, in rank order, at the start
\* of the array.
Gathered(a, la, np) ==
    LET g == Concat(la, 0, np)
    IN [i \in 1..Len(a) |-> IF i <= Len(g) THEN g[i] ELSE a[i]]

ErrMsg(r, m) == [rank |-> r, msg |-> m]

Record(r, sz, np) == [rank |-> r, size |-> sz, num_proc |-> np]

\* The program at the start of main, MPI_Init done on every process.
MainInit ==
    /\ num_proc \in 1..MaxProc
    /\ send_mode \in {"buffered", "sync"}
    /\ \/ argc = 2 /\ argv \in ArgStrings
       \/ argc \in {1, 3} /\ argv = <<>>
    /\ range_min = RANGE_MIN
    /\ range_max \in RANGE_MIN..RANGE_MAX
    /\ size = 0
    /\ round = 1
    /\ input = <<>>
    /\ array = PerRank(num_proc, <<>>)
    /\ pc = PerRank(num_proc, "start")
    /\ local_min = PerRank(num_proc, RANGE_MAX)
    /\ local_max = PerRank(num_proc, RANGE_MIN)
    /\ min = PerRank(num_proc, 0)
    /\ max = PerRank(num_proc, 0)
    /\ local_count = PerRank(num_proc, NoCount)
    /\ count = NoCount
    /\ gi = 0
    /\ k = 0
    /\ msgs = {}
    /\ bcast = NoBcast
    /\ scan_mm = PerRank(num_proc, {})
    /\ scan_hist = PerRank(num_proc, {})
    /\ alloc_failed = {}
    /\ sent = PerRank(num_proc, 0)
    /\ recvd = <<>>
    /\ lost = {}
    /\ local_array = PerRank(num_proc, <<>>)
    /\ err = <<>>
    /\ out = <<>>
    /\ int_max = INT_MAX

\* main lines 44-59: wrong number of arguments, or an empty range; rank 0
\* reports it and every process calls MPI_Barrier.
MainBadArgs(r) ==
    /\ pc[r] = "start"
    /\ \/ /\ argc # 2
          /\ err' = IF ReportsError(r)
                    THEN Append(err, ErrMsg(r, "usage")) ELSE err
       \/ /\ argc = 2
          /\ range_max <= range_min
          /\ err' = IF ReportsError(r)
                    THEN Append(err, ErrMsg(r, "range")) ELSE err
    /\ pc' = [pc EXCEPT ![r] = "arg_barrier"]
    /\ UNCHANGED <<size, num_proc, send_mode, round, input, array, local_min,
                   local_max, min, max, local_count, count, gi, k, msgs,
                   bcast, scan_mm, scan_hist, alloc_failed, sent, recvd,
                   lost, argc, argv, range_min, range_max, local_array, out,
                   int_max>>

\* main lines 47-49 and 56-58: MPI_Barrier returns once every process has
\* called it; then MPI_Finalize and exit(EXIT_FAILURE).
ArgBarrierReturn(r) ==
    /\ pc[r] = "arg_barrier"
    /\ \A s \in Ranks : pc[s] \in {"arg_barrier", "exited"}
    /\ pc' = [pc EXCEPT ![r] = "exited"]
    /\ UNCHANGED <<size, num_proc, send_mode, round, input, array, local_min,
                   local_max, min, max, local_count, count, gi, k, msgs,
                   bcast, scan_mm, scan_hist, alloc_failed, sent, recvd,
                   lost, argc, argv, range_min, range_max, local_array, err,
                   out, int_max>>

\* main lines 62-63 and 72: size = atoll(argv[1]), the array allocated, the
\* process in the MPI_Barrier of START_TIME(time_init).
MainAlloc(r) ==
    /\ pc[r] = "start"
    /\ argc = 2
    /\ range_max > range_min
    /\ ~SafeAllocFails(Atoll(argv) * SizeofInt)
    /\ size' = Atoll(argv)
    /\ array' = [array EXCEPT ![r] = Malloced(Atoll(argv))]
    /\ pc' = [pc EXCEPT ![r] = "init_barrier"]
    /\ UNCHANGED <<num_proc, send_mode, round, input, local_min, local_max,
                   min, max, local_count, count, gi, k, msgs, bcast, scan_mm,
                   scan_hist, alloc_failed, sent, recvd, lost, argc, argv,
                   range_min, range_max, local_array, err, out, int_max>>

\* main lines 62-63 with safe_alloc lines 36-38: the size is less than 1; the
\* process reports it and calls MPI_Barrier.
MainAllocFail(r) ==
    /\ pc[r] = "start"
    /\ argc = 2
    /\ range_max > range_min
    /\ SafeAllocFails(Atoll(argv) * SizeofInt)
    /\ size' = Atoll(argv)
    /\ err' = Append(err, ErrMsg(r, "alloc"))
    /\ pc' = [pc EXCEPT ![r] = "fail_barrier"]
    /\ UNCHANGED <<num_proc, send_mode, round, input, array, local_min,
                   local_max, min, max, local_count, count, gi, k, msgs,
                   bcast, scan_mm, scan_hist, alloc_failed, sent, recvd,
                   lost, argc, argv, range_min, range_max, local_array, out,
                   int_max>>

\* The MPI_Barrier of START_TIME(time_init) returns; array_init_random lines
\* 58-72: local_array allocated and filled with rand_r, whose seed is the
\* time of the call.
InitFill(r) ==
    /\ pc[r] = "init_barrier"
    /\ \A s \in Ranks : pc[s] # "start"
    /\ ~SafeAllocFails(LocalSize(size, num_proc) * SizeofInt)
    /\ \E raw \in [1..LocalSize(size, num_proc) -> 0..MaxRand] :
           local_array' = [local_array EXCEPT ![r] =
               [i \in 1..LocalSize(size, num_proc) |->
                    InRange(raw[i], range_min, range_max)]]
    /\ pc' = [pc EXCEPT ![r] = "allgather"]
    /\ UNCHANGED <<size, num_proc, send_mode, round, input, array, local_min,
                   local_max, min, max, local_count, count, gi, k, msgs,
                   bcast, scan_mm, scan_hist, alloc_failed, sent, recvd,
                   lost, argc, argv, range_min, range_max, err, out, int_max>>

\* array_init_random line 70 with safe_alloc lines 36-38: local_size is 0.
InitAllocFail(r) ==
    /\ pc[r] = "init_barrier"
    /\ \A s \in Ranks : pc[s] # "start"
    /\ SafeAllocFails(LocalSize(size, num_proc) * SizeofInt)
    /\ err' = Append(err, ErrMsg(r, "alloc"))
    /\ pc' = [pc EXCEPT ![r] = "fail_barrier"]
    /\ UNCHANGED <<size, num_proc, send_mode, round, input, array, local_min,
                   local_max, min, max, local_count, count, gi, k, msgs,
                   bcast, scan_mm, scan_hist, alloc_failed, sent, recvd,
                   lost, argc, argv, range_min, range_max, local_array, out,
                   int_max>>

\* array_init_random lines 75-90: MPI_Allgather returns once every process
\* has contributed its local_array; then the left out elements are filled;
\* the process is in the MPI_Barrier of START_TIME(time_sort).
Allgather(r) ==
    /\ pc[r] = "allgather"
    /\ \A s \in Ranks : pc[s] \notin {"start", "init_barrier"}
    /\ array' = [array EXCEPT ![r] =
           FillLeftout(Gathered(@, local_array, num_proc), size, range_min,
                       range_max, num_proc, r)]
    /\ pc' = [pc EXCEPT ![r] = "sort_barrier"]
    /\ UNCHANGED <<size, num_proc, send_mode, round, input, local_min,
                   local_max, min, max, local_count, count, gi, k, msgs,
                   bcast, scan_mm, scan_hist, alloc_failed, sent, recvd,
                   lost, argc, argv, range_min, range_max, local_array, err,
                   out, int_max>>

\* The MPI_Barrier of START_TIME(time_sort) returns and counting_sort is
\* called, line 79.
SortBarrier(r) ==
    /\ pc[r] = "sort_barrier"
    /\ \A s \in Ranks : pc[s] \notin {"start", "init_barrier", "allgather"}
    /\ input' = IF r = 0 THEN array[r] ELSE input
    /\ pc' = [pc EXCEPT ![r] = "fmm"]
    /\ UNCHANGED <<size, num_proc, send_mode, round, array, local_min,
                   local_max, min, max, local_count, count, gi, k, msgs,
                   bcast, scan_mm, scan_hist, alloc_failed, sent, recvd,
                   lost, argc, argv, range_min, range_max, local_array, err,
                   out, int_max>>

\* main lines 82-92: counting_sort has returned; MPI_Finalize, rank 0 prints
\* the record, return EXIT_SUCCESS.
MainFinish(r) ==
    /\ pc[r] = "done"
    /\ out' = IF WritesRecord(r)
              THEN Append(out, Record(r, size, num_proc)) ELSE out
    /\ pc' = [pc EXCEPT ![r] = "exit_ok"]
    /\ UNCHANGED <<size, num_proc, send_mode, round, input, array, local_min,
                   local_max, min, max, local_count, count, gi, k, msgs,
                   bcast, scan_mm, scan_hist, alloc_failed, sent, recvd,
                   lost, argc, argv, range_min, range_max, local_array, err,
                   int_max>>

MainNext ==
    \/ \E r \in Ranks : MainBadArgs(r)
    \/ \E r \in Ranks : ArgBarrierReturn(r)
    \/ \E r \in Ranks : MainAlloc(r)
    \/ \E r \in Ranks : MainAllocFail(r)
    \/ \E r \in Ranks : InitFill(r)
    \/ \E r \in Ranks : InitAllocFail(r)
    \/ \E r \in Ranks : Allgather(r)
    \/ \E r \in Ranks : SortBarrier(r)
    \/ SortNext
    \/ \E r \in Ranks : MainFinish(r)
    \/ \E r \in Ranks : BarrierReturn(r)

MainSpec == MainInit /\ [][MainNext]_vars

\* ---------------------------------------------------------- properties ----
IsSorted(a) == \A i \in 1..(Len(a) - 1) : a[i] <= a[i + 1]

Occurrences(a, v) == Cardinality({i \in DOMAIN a : a[i] = v})

SameMultiset(a, b) ==
    /\ Len(a) = Len(b)
    /\ \A v \in Values : Occurrences(a, v) = Occurrences(b, v)

Elements(a) == {a[i] : i \in DOMAIN a}

\* Every index of [0, size) lies in scan[r] for exactly one r, and no process
\* scans an index outside [0, size).
Tiles(scan) ==
    /\ \A i \in 0..(size - 1) : Cardinality({r \in Ranks : i \in scan[r]}) = 1
    /\ \A r \in Ranks : scan[r] \subseteq 0..(size - 1)

\* C1: once counting_sort has returned on a process, that process's array is
\* non-decreasing.
C1_Sorted == \A r \in Ranks : pc[r] = "done" => IsSorted(array[r])

C1_Witness ==
    \E r \in Ranks :
        /\ r > 0
        /\ pc[r] = "done"
        /\ size % num_proc # 0
        /\ ~IsSorted(input)

\* C2: once counting_sort has returned on a process, the multiset of values of
\* its array is the multiset of values of the input array.
C2_Conservation ==
    \A r \in Ranks : pc[r] = "done" => SameMultiset(array[r], input)

C2_Witness ==
    /\ AllDone
    /\ num_proc > 1
    /\ size % num_proc # 0
    /\ array[0] # input

\* C3: after every process has returned from counting_sort, all the arrays
\* are identical.
C3_Uniform == AllDone => \A r, s \in Ranks : array[r] = array[s]

C3_Witness ==
    /\ AllDone
    /\ num_proc >= 3
    /\ array[num_proc - 1] # input

\* C4: when find_min_max has returned on a process, its (min, max) is the true
\* minimum and maximum of the whole array, whatever size and num_proc are.
C4_MinMax ==
    \A r \in Ranks :
        MinMaxReturned(r) =>
            /\ min[r] = SetMin(Elements(input))
            /\ max[r] = SetMax(Elements(input))

C4_Witness ==
    /\ \A r \in Ranks : MinMaxReturned(r)
    /\ num_proc > 1
    /\ size % num_proc # 0
    /\ \A i \in 1..(size - 1) : input[size] < input[i]

C4_WitnessFewElements ==
    /\ \A r \in Ranks : MinMaxReturned(r)
    /\ size < num_proc
    /\ min[0] # max[0]

\* C5: when num_proc <= size, the index ranges the processes scan tile
\* [0, size) exactly once, in find_min_max and in the histogram scan.
C5_Tiling ==
    num_proc <= size =>
        /\ (\A r \in Ranks : InAllreduceMin(r)) => Tiles(scan_mm)
        /\ (\A r \in Ranks : HistBuilt(r)) => Tiles(scan_hist)

C5_Witness ==
    /\ \A r \in Ranks : HistBuilt(r)
    /\ 1 < num_proc
    /\ num_proc < size
    /\ size % num_proc # 0

\* C6 as claimed: rank 0's partition is [(num_proc-1)*L, size), L = size /
\* num_proc, in find_min_max and in the histogram scan.
C6_CoordLastChunkBoth ==
    LET L == size \div num_proc IN
    /\ InAllreduceMin(0) => scan_mm[0] = ((num_proc - 1) * L)..(size - 1)
    /\ HistBuilt(0) => scan_hist[0] = ((num_proc - 1) * L)..(size - 1)

\* C6 as amended: rank 0 scans [(num_proc-1)*L, size) in find_min_max, and
\* counts the first chunk [0, L) and the remainder [num_proc*L, size) in the
\* histogram scan.
C6_CoordPartitions ==
    LET L == size \div num_proc IN
    /\ InAllreduceMin(0) => scan_mm[0] = ((num_proc - 1) * L)..(size - 1)
    /\ HistBuilt(0) =>
           scan_hist[0] = (0..(L - 1)) \cup ((num_proc * L)..(size - 1))

C6_Witness ==
    /\ HistBuilt(0)
    /\ num_proc >= 2
    /\ size \div num_proc >= 1
    /\ size % num_proc # 0

\* C7: counting_sort on an array that is already non-decreasing (the result
\* of an earlier counting_sort included) leaves every process's array equal
\* to the array it was given.
C7_Idempotent ==
    \A r \in Ranks :
        (pc[r] = "done" /\ (IsSorted(input) \/ round > 1)) =>
            array[r] = input

C7_Witness ==
    /\ AllDone
    /\ round = 2
    /\ num_proc > 1
    /\ Cardinality(Elements(input)) > 1

\* C8: with reliable delivery and no allocation failure, under weak fairness
\* of every process, every invocation of counting_sort returns on every
\* process, with MPI_Send buffered and with MPI_Send synchronous.
C8_Termination == []<>AllDone

C8_Witness ==
    /\ AllDone
    /\ send_mode = "sync"
    /\ num_proc >= 3
    /\ size % num_proc # 0

\* Process s has done its part of the range reduction: it has scanned its
\* partition and called the last MPI_Allreduce.
ReductionCompleted(s) == InAllreduceMax(s)

\* Process s has done its part of the histogram build and gather: rank > 0
\* has handed its local_count[] to MPI_Send, rank 0 has left the gather loop.
GatherCompleted(s) ==
    IF s = 0 THEN pc[s] \in {"reconstruct", "bcast", "done"}
             ELSE pc[s] \in {"send_wait", "bcast", "done"}

\* Rank 0 has rewritten its array.
ReconstructionCompleted == pc[0] \in {"bcast", "done"}

\* Process r has called MPI_Bcast.
InBcast(r) == pc[r] \in {"bcast", "done"}

\* C9 as claimed: every phase is a full barrier; no process begins the
\* histogram phase before every process has completed the range reduction,
\* rank 0 does not begin the reconstruction before every process has completed
\* the gather, and no process enters the broadcast before the reconstruction
\* is completed, nor while a peer is still building or sending its histogram.
C9_PhasesAreBarriers ==
    \A r, s \in Ranks :
        /\ MinMaxReturned(r) => ReductionCompleted(s)
        /\ pc[0] \in {"reconstruct", "bcast", "done"} => GatherCompleted(s)
        /\ InBcast(r) => ReconstructionCompleted
        /\ InBcast(r) => pc[s] \notin {"count", "coord_init", "send", "send_wait"}

\* C9 as amended: the range reduction is a barrier, rank 0 begins the
\* reconstruction only when every histogram has been built, sent and
\* received, and no process returns from the broadcast before that and before
\* the reconstruction is completed.
C9_Barriers ==
    \A r, s \in Ranks :
        /\ InAllreduceMax(r) => InAllreduceMin(s)
        /\ MinMaxReturned(r) => ReductionCompleted(s)
        /\ pc[0] \in {"reconstruct", "bcast", "done"} =>
               (GatherCompleted(s) /\ msgs = {})
        /\ pc[r] = "done" =>
               (GatherCompleted(s) /\ ReconstructionCompleted /\ msgs = {})

C9_Witness ==
    /\ num_proc >= 3
    /\ pc[0] = "done"
    /\ pc[1] = "done"
    /\ pc[2] = "send_wait"

\* C10 as claimed: when a safe_alloc has failed on exactly one process and no
\* process can take a step any more, every process has terminated; and no
\* process returns from counting_sort once an allocation has failed.
C10_FailureTerminatesAll ==
    /\ (Cardinality(alloc_failed) = 1 /\ ~ENABLED NextFail) =>
           \A r \in Ranks : pc[r] = "exited"
    /\ alloc_failed # {} => \A r \in Ranks : pc[r] # "done"

RECURSIVE SumSeq(_)
SumSeq(h) == IF h = <<>> THEN 0 ELSE Head(h) + SumSeq(Tail(h))

\* Rank 0 has left the gather loop: it is about to write, or has written, the
\* reconstructed array.
GatherLeft == pc[0] \in {"reconstruct", "bcast", "done"}

\* C16: when rank 0 starts the reconstruction, count[j] is the number of
\* elements of the whole input array equal to min + j, for every j of
\* [0, max - min], and count[] sums to size.
C16_GlobalHistogram ==
    pc[0] = "reconstruct" =>
        /\ Len(count) = SetMax(Elements(input)) - SetMin(Elements(input)) + 1
        /\ \A j \in 1..Len(count) :
               count[j] = Occurrences(input, SetMin(Elements(input)) + j - 1)
        /\ SumSeq(count) = size

C16_Witness ==
    /\ pc[0] = "reconstruct"
    /\ num_proc >= 3
    /\ size % num_proc # 0
    /\ Len(count) > 1

\* C17: when a process has built its local_count[] (rank > 0 before it sends
\* it, rank 0 before the gather loop starts), the entries sum to the size of
\* its partition: size / num_proc, plus the left out elements on rank 0.
C17_LocalHistogramSum ==
    LET L == size \div num_proc IN
    /\ \A r \in Ranks \ {0} : pc[r] = "send" => SumSeq(local_count[r]) = L
    /\ (pc[0] = "gather" /\ gi = 0) =>
           SumSeq(local_count[0]) = L + (size - L * num_proc)

C17_Witness ==
    /\ pc[0] = "gather"
    /\ gi = 0
    /\ size % num_proc # 0
    /\ \E r \in Ranks \ {0} : pc[r] = "send" /\ SumSeq(local_count[r]) > 0

\* C18: rank 0 does not leave the gather loop before it has received exactly
\* num_proc - 1 histogram messages, one from each rank > 0; each rank > 0
\* sends exactly one message; when every process has returned no message is
\* left undelivered.
C18_GatherExactlyOnce ==
    /\ GatherLeft =>
           /\ Len(recvd) = num_proc - 1
           /\ \A r \in Ranks \ {0} :
                  Cardinality({i \in DOMAIN recvd : recvd[i] = r}) = 1
    /\ sent[0] = 0
    /\ \A r \in Ranks \ {0} :
           /\ sent[r] <= 1
           /\ pc[r] \in {"send_wait", "bcast", "done"} => sent[r] = 1
    /\ AllDone => msgs = {}

C18_Witness ==
    /\ AllDone
    /\ num_proc >= 3
    /\ Len(recvd) = num_proc - 1

\* C19: once the histogram message of some rank > 0 is lost, rank 0 never
\* leaves the gather loop: it never reconstructs, never calls MPI_Bcast, and no
\* process returns from counting_sort.
C19_LossBlocksAll ==
    lost # {} =>
        /\ ~GatherLeft
        /\ ~bcast.posted
        /\ \A r \in Ranks : pc[r] # "done"

C19_Witness ==
    /\ lost # {}
    /\ num_proc >= 3
    /\ pc[0] = "gather"
    /\ gi \in lost
    /\ ~ENABLED NextLoss

\* C20: the reconstruction writes exactly size elements: when it ends the
\* write index k equals size, so every index of [0, size) was written once and
\* no index >= size was written.
C20_WritesExactlySize == ReconstructionCompleted => k = size

C20_Witness ==
    /\ ReconstructionCompleted
    /\ num_proc >= 2
    /\ size % num_proc # 0
    /\ array[0] # input

\* ------------------------------------------------ properties of main ----
\* The invocation is invalid for main's own checks, lines 44 and 53.
ArgsInvalid == argc # 2 \/ range_max <= range_min

\* s is the decimal representation of a positive integer.
IsPositiveDecimal(s) ==
    /\ s # <<>>
    /\ \A i \in DOMAIN s : IsDigit(s[i])
    /\ \E i \in DOMAIN s : s[i] # "0"

\* Process r has exited with EXIT_FAILURE, or is in the barrier before it.
Failing(r) == pc[r] \in {"arg_barrier", "fail_barrier", "exited"}

\* array_init_random has returned on process r.
InitReturned(r) ==
    /\ ~Failing(r)
    /\ pc[r] \notin {"start", "init_barrier", "allgather"}

\* The sort has not written to the array of process r yet.
ArrayUntouched(r) ==
    IF r = 0 THEN pc[r] \notin {"bcast", "done", "exit_ok"}
             ELSE pc[r] \notin {"done", "exit_ok"}

ElementsInRange(a) == \A i \in DOMAIN a : a[i] \in range_min..range_max

\* C11: when argc is not 2 or RANGE_MAX <= RANGE_MIN, the error is printed
\* once, by rank 0 only; no process allocates the array or goes any further
\* than the barrier; a process exits (with failure) only after every process
\* has called the barrier, and every process does exit; nothing is printed on
\* standard output.
C11_InvalidInvocation ==
    ArgsInvalid =>
        /\ Len(err) <= 1
        /\ \A i \in DOMAIN err :
               err[i].rank = 0 /\ err[i].msg \in {"usage", "range"}
        /\ pc[0] # "start" => Len(err) = 1
        /\ \A r \in Ranks :
               /\ pc[r] \in {"start", "arg_barrier", "exited"}
               /\ array[r] = <<>>
               /\ pc[r] = "exited" =>
                      \A t \in Ranks : pc[t] \in {"arg_barrier", "exited"}
        /\ out = <<>>
        /\ (~ENABLED MainNext) => \A r \in Ranks : pc[r] = "exited"

C11_Witness ==
    /\ argc = 2
    /\ range_max <= range_min
    /\ num_proc >= 3
    /\ \A r \in Ranks : pc[r] = "exited"
    /\ Len(err) = 1

\* C12: when argv[1] is not the decimal representation of a positive integer,
\* no process gets past the allocation of the array: each one stays at the
\* start of main or fails in safe_alloc, and no sort is performed.
C12_MalformedRejected ==
    (argc = 2 /\ range_max > range_min /\ ~IsPositiveDecimal(argv)) =>
        \A r \in Ranks : pc[r] \in {"start", "fail_barrier", "exited"}

C14_InitRandomTotal ==
    size >= 1 =>
        \A r \in Ranks :
            /\ ~Failing(r)
            /\ (InitReturned(r) /\ ArrayUntouched(r)) =>
                   (Len(array[r]) = size /\ ElementsInRange(array[r]))

\* C15: once array_init_random has returned, and until the sort writes to
\* the array, every process holds all size elements and the arrays of all
\* processes are equal at every index, the left out indices included.
C15_Replicated ==
    \A r \in Ranks :
        (InitReturned(r) /\ ArrayUntouched(r)) =>
            /\ Len(array[r]) = size
            /\ ElementsInRange(array[r])
            /\ \A t \in Ranks :
                   (InitReturned(t) /\ ArrayUntouched(t)) =>
                       array[r] = array[t]

C15_Witness ==
    /\ num_proc >= 2
    /\ size % num_proc # 0
    /\ \A r \in Ranks : pc[r] = "sort_barrier"
    /\ \E i \in DOMAIN array[0] : array[0][i] # array[0][1]

\* ------------------------------------- properties of the sorted result ----
\* The non-decreasing arrangement of the elements of a.
SortedOf(a) ==
    CHOOSE s \in [1..Len(a) -> Elements(a)] : IsSorted(s) /\ SameMultiset(s, a)

\* How many times each value of lo..hi occurs in a.
HistogramOf(a, lo, hi) == [j \in 1..(hi - lo + 1) |-> Occurrences(a, lo + j - 1)]

\* C21: with 1 <= size < num_proc every rank > 0 builds an all-zero
\* local_count[], the reduced min and max are those of the whole array, every
\* process that returns holds the sorted array, and the processes cannot stop
\* before all have returned.
C21_FewerElementsThanProcs ==
    size < num_proc =>
        /\ \A r \in Ranks \ {0} :
               pc[r] = "send" =>
                   /\ Len(local_count[r]) = max[r] - min[r] + 1
                   /\ \A j \in DOMAIN local_count[r] : local_count[r][j] = 0
        /\ \A r \in Ranks :
               MinMaxReturned(r) =>
                   /\ min[r] = SetMin(Elements(input))
                   /\ max[r] = SetMax(Elements(input))
        /\ \A r \in Ranks :
               pc[r] = "done" =>
                   /\ Len(array[r]) = size
                   /\ IsSorted(array[r])
                   /\ SameMultiset(array[r], input)
        /\ (~ENABLED Next) => AllDone

C21_Witness ==
    /\ size = 2
    /\ num_proc = 3
    /\ input[1] > input[2]
    /\ AllDone
    /\ round = 1

\* C22: when all elements are equal every histogram has exactly one entry and
\* every process returns with size copies of the value; with size = 1 and
\* num_proc = 1 the array is returned unchanged.
C22_Degenerate ==
    /\ Cardinality(Elements(input)) = 1 =>
           /\ \A r \in Ranks :
                  local_count[r] # NoCount => Len(local_count[r]) = 1
           /\ count # NoCount => Len(count) = 1
           /\ \A r \in Ranks :
                  pc[r] = "done" =>
                      /\ Len(array[r]) = size
                      /\ \A i \in DOMAIN array[r] : array[r][i] = input[1]
    /\ (size = 1 /\ num_proc = 1 /\ pc[0] = "done") => array[0] = input

C22_Witness ==
    /\ Cardinality(Elements(input)) = 1
    /\ size >= 3
    /\ num_proc >= 2
    /\ size % num_proc # 0
    /\ AllDone

\* C23: the result is a function of the input alone: whatever the order of
\* the processes' steps and of their sends, the histogram rank 0 reconstructs
\* from and the array each process returns with are the same.
C23_ScheduleIndependent ==
    /\ pc[0] = "reconstruct" =>
           count = HistogramOf(input, SetMin(Elements(input)),
                               SetMax(Elements(input)))
    /\ \A r \in Ranks : pc[r] = "done" => array[r] = SortedOf(input)

\* Rank 2 has sent its histogram before rank 1, and rank 0 has summed the
\* histograms in rank order all the same.
C23_Witness ==
    /\ num_proc >= 3
    /\ pc[0] = "gather"
    /\ gi = 1
    /\ sent[1] = 0
    /\ sent[2] = 1
    /\ \E m \in msgs : m.src = 2 /\ SumSeq(m.data) > 0

\* C24: the array of a rank > 0 is the input until MPI_Bcast returns on it and
\* the complete sorted array afterwards, never anything else.
C24_NoPartialResult ==
    \A r \in Ranks \ {0} :
        /\ array[r] = input \/ array[r] = SortedOf(input)
        /\ pc[r] # "done" => array[r] = input
        /\ pc[r] = "done" => array[r] = SortedOf(input)

C24_Witness ==
    /\ num_proc >= 2
    /\ input # SortedOf(input)
    /\ pc[0] = "done"
    /\ \E r \in Ranks \ {0} : pc[r] = "done"
    /\ \E r \in Ranks \ {0} : pc[r] = "bcast" /\ array[r] = input

\* The indices of local_count[] that the loop over array[from .. to-1] uses.
HistIndices(a, from, to, mn) == {key(a[i + 1]) - mn : i \in Range(from, to)}

\* C25: every index into a histogram is within [0, count_size): those of the
\* counting loop over the process's chunk, those of rank 0's loop over the
\* left out elements, and those of the reconstruction.
C25_HistogramInBounds ==
    /\ \A r \in Ranks :
           pc[r] = "count" =>
               HistIndices(array[r], LocalOffset(r, size, num_proc),
                           LocalOffset(r, size, num_proc)
                               + LocalSize(size, num_proc), min[r])
                   \subseteq 0..(CountSize(min[r], max[r]) - 1)
    /\ pc[0] = "coord_init" =>
           /\ Len(local_count[0]) = CountSize(min[0], max[0])
           /\ HistIndices(array[0], IndexLeftout(size, num_proc), size,
                          min[0])
                  \subseteq 0..(Len(local_count[0]) - 1)
    /\ pc[0] = "reconstruct" =>
           {i - min[0] : i \in Range(min[0], max[0] + 1)}
               \subseteq 0..(Len(count) - 1)

C25_Witness ==
    /\ num_proc >= 2
    /\ size % num_proc # 0
    /\ pc[0] = "coord_init"
    /\ max[0] > min[0]
    /\ array_min_max(array[0], MinMaxStart(0, size, num_proc),
                     MinMaxCount(0, size, num_proc))
           # <<min[0], max[0]>>

\* C26: every process returns with the array the serial counting_sort of
\* serial.c produces from the same input.
C26_EqualsSerial ==
    \A r \in Ranks : pc[r] = "done" => array[r] = serial_counting_sort(input)

C26_Witness ==
    /\ AllDone
    /\ num_proc >= 3
    /\ size % num_proc # 0
    /\ array[0] # input

\* C27: MPI_Bcast transfers size elements whatever the size: the count it is
\* given equals size, the call does not fail, and every process that returns
\* holds all of rank 0's array.
C27_BcastCountLossless ==
    /\ \A r \in Ranks : pc[r] = "bcast" => BcastCount(size) = size
    /\ \A r \in Ranks : pc[r] # "aborted"
    /\ bcast.posted => Len(bcast.data) = size
    /\ \A r \in Ranks : pc[r] = "done" => array[r] = SortedOf(input)

====
